---------------------------- MODULE Spec2Model ----------------------------
(***************************************************************************)
(* Model of src/api/apply.js: the talent & vendor application handler.    *)
(*                                                                         *)
(* A JavaScript string is a sequence of one-character strings, so that    *)
(* the tag-stripping regular expression, String.prototype.trim, the       *)
(* e-mail regular expression and String.prototype.startsWith are computed *)
(* character by character.  A JavaScript value is a record                *)
(* [t, s, n, a]: its type tag, its characters (strings), its number       *)
(* (numbers) and its elements (arrays).                                   *)
(***************************************************************************)
EXTENDS Integers, Sequences, FiniteSets, TLC

VARIABLES
    env,        \* process.env: [url, key], each present or not
    pc,         \* position of the handler: "idle", "awaitFetch", "awaitText", "done"
    req,        \* the request being served: [method, headers, body]
    res,        \* the response: [sent, status, body, headers]
    parsed,     \* whether req.body has been read / JSON.parse'd (src line 59)
    errors,     \* the errors array of src line 67
    row,        \* the row object of src lines 99-128
    fetches,    \* the bodies POSTed to the persistence API for this request
    upstream,   \* the Response of fetch(): [status, text]
    log,        \* what console.error received for this request
    sanPc,      \* sanitizer harness: "in", "once", "twice"
    sanIn,      \* sanitizer harness: the value given to stripHtml
    sanOut,     \* sanitizer harness: stripHtml(sanIn)
    sanTwice    \* sanitizer harness: stripHtml(stripHtml(sanIn))

vars == <<env, pc, req, res, parsed, errors, row, fetches, upstream, log,
          sanPc, sanIn, sanOut, sanTwice>>

handlerVars == <<env, pc, req, res, parsed, errors, row, fetches, upstream, log>>
sanVars     == <<sanPc, sanIn, sanOut, sanTwice>>

-----------------------------------------------------------------------------
(* Bounds of the model *)

\* longest string given to the sanitizer harness
MaxLen == 5

-----------------------------------------------------------------------------
(* JavaScript values *)

Undef    == [t |-> "undefined", s |-> <<>>, n |-> 0, a |-> <<>>]
Null     == [t |-> "null",      s |-> <<>>, n |-> 0, a |-> <<>>]
Str(s)   == [t |-> "string",    s |-> s,    n |-> 0, a |-> <<>>]
Num(n)   == [t |-> "number",    s |-> <<>>, n |-> n, a |-> <<>>]
Arr(a)   == [t |-> "array",     s |-> <<>>, n |-> 0, a |-> a]

\* ToBoolean: undefined, null, '' and 0 are falsy; every array is truthy
Truthy(v) ==
    CASE v.t = "undefined" -> FALSE
      [] v.t = "null"      -> FALSE
      [] v.t = "string"    -> v.s # <<>>
      [] v.t = "number"    -> v.n # 0
      [] OTHER             -> TRUE

\* x || y
OrElse(x, y) == IF Truthy(x) THEN x ELSE y

Rep(c, n) == [i \in 1..n |-> c]

-----------------------------------------------------------------------------
(* Character classes *)

Lower == {"a", "b", "c", "d", "e", "f", "g", "h", "i", "j", "k", "l", "m",
          "n", "o", "p", "q", "r", "s", "t", "u", "v", "w", "x", "y", "z"}
Upper == {"A", "B", "C", "D", "E", "F", "G", "H", "I", "J", "K", "L", "M",
          "N", "O", "P", "Q", "R", "S", "T", "U", "V", "W", "X", "Y", "Z"}
Digit == {"0", "1", "2", "3", "4", "5", "6", "7", "8", "9"}

\* the characters \s matches and trim() removes, among those the model uses
WhiteSpace == {" ", "\t", "\n", "\r"}

-----------------------------------------------------------------------------
(* Program constants, src lines 5-22 *)

ALLOWED_ORIGINS ==
    { <<"h", "t", "t", "p", "s", ":", "/", "/", "t", "h", "i", "r", "t", "y", "3", "l", "a", "b", "s", ".", "c", "o", "m">>,
      <<"h", "t", "t", "p", "s", ":", "/", "/", "w", "w", "w", ".", "t", "h", "i", "r", "t", "y", "3", "l", "a", "b", "s", ".", "c", "o", "m">> }

VALID_TYPES ==
    { <<"t", "a", "l", "e", "n", "t">>,
      <<"v", "e", "n", "d", "o", "r">> }

TALENT_DISCIPLINES ==
    { <<"P", "h", "o", "t", "o", "g", "r", "a", "p", "h", "y">>,
      <<"V", "i", "d", "e", "o", "g", "r", "a", "p", "h", "y">>,
      <<"D", "i", "r", "e", "c", "t", "i", "n", "g">>,
      <<"G", "r", "a", "p", "h", "i", "c", " ", "D", "e", "s", "i", "g", "n">>,
      <<"M", "o", "t", "i", "o", "n", " ", "D", "e", "s", "i", "g", "n">>,
      <<"W", "e", "b", " ", "D", "e", "v", "e", "l", "o", "p", "m", "e", "n", "t">>,
      <<"A", "p", "p", " ", "D", "e", "v", "e", "l", "o", "p", "m", "e", "n", "t">>,
      <<"P", "r", "o", "d", "u", "c", "t", "i", "o", "n", " ", "M", "a", "n", "a", "g", "e", "m", "e", "n", "t">>,
      <<"E", "v", "e", "n", "t", " ", "M", "a", "n", "a", "g", "e", "m", "e", "n", "t">>,
      <<"A", "V", " ", "E", "n", "g", "i", "n", "e", "e", "r", "i", "n", "g">>,
      <<"S", "o", "u", "n", "d", " ", "D", "e", "s", "i", "g", "n">>,
      <<"L", "i", "g", "h", "t", "i", "n", "g", " ", "D", "e", "s", "i", "g", "n">>,
      <<"F", "a", "b", "r", "i", "c", "a", "t", "i", "o", "n">>,
      <<"S", "t", "y", "l", "i", "n", "g">>,
      <<"O", "t", "h", "e", "r">> }

VENDOR_TYPES ==
    { <<"F", "a", "b", "r", "i", "c", "a", "t", "i", "o", "n", " ", "&", " ", "B", "u", "i", "l", "d">>,
      <<"P", "r", "i", "n", "t", " ", "&", " ", "S", "i", "g", "n", "a", "g", "e">>,
      <<"A", "V", " ", "&", " ", "E", "q", "u", "i", "p", "m", "e", "n", "t", " ", "R", "e", "n", "t", "a", "l">>,
      <<"C", "a", "t", "e", "r", "i", "n", "g", " ", "&", " ", "F", "&", "B">>,
      <<"V", "e", "n", "u", "e">>,
      <<"F", "u", "r", "n", "i", "t", "u", "r", "e", " ", "&", " ", "D", "e", "c", "o", "r", " ", "R", "e", "n", "t", "a", "l">>,
      <<"S", "t", "a", "f", "f", "i", "n", "g">>,
      <<"T", "r", "a", "n", "s", "p", "o", "r", "t", "a", "t", "i", "o", "n", " ", "&", " ", "L", "o", "g", "i", "s", "t", "i", "c", "s">>,
      <<"O", "t", "h", "e", "r">> }

\* origin.startsWith('http://localhost'), src line 40
LOCAL_PREFIX == <<"h", "t", "t", "p", ":", "/", "/", "l", "o", "c", "a", "l", "h", "o", "s", "t">>

\* name.length < 2, src line 74
MinNameLength == 2

\* bio.length < 50, src line 76
MinBioLength == 50

-----------------------------------------------------------------------------
(* stripHtml, src lines 24-27 *)

\* index of the first element of s at or after position i that is in set cs,
\* 0 when there is none
RECURSIVE IndexFrom(_, _, _)
IndexFrom(s, i, cs) ==
    IF i > Len(s) THEN 0
    ELSE IF s[i] \in cs THEN i
    ELSE IndexFrom(s, i + 1, cs)

Tail1(s, i) == SubSeq(s, i, Len(s))

\* a tag removed at its first match only: a plausible slip (no /g flag)
StripFirstTagOnly(s) ==
    LET p == IndexFrom(s, 1, {"<"})
        q == IF p = 0 THEN 0 ELSE IndexFrom(s, p + 1, {">"})
    IN  IF q = 0 THEN s ELSE SubSeq(s, 1, p - 1) \o Tail1(s, q + 1)

\* str.replace(/<[^>]*>/g, ''): from the leftmost '<' that has a '>' after
\* it up to the first such '>', removed; the scan goes on after the match
\* and never looks again at what it has already produced
RECURSIVE StripTags(_)
StripTags(s) ==
    LET p == IndexFrom(s, 1, {"<"})
        q == IF p = 0 THEN 0 ELSE IndexFrom(s, p + 1, {">"})
    IN  IF q = 0 THEN s ELSE SubSeq(s, 1, p - 1) \o StripTags(Tail1(s, q + 1))

RECURSIVE TrimStart(_)
TrimStart(s) ==
    IF s # <<>> /\ Head(s) \in WhiteSpace THEN TrimStart(Tail(s)) ELSE s

RECURSIVE TrimEnd(_)
TrimEnd(s) ==
    IF s # <<>> /\ s[Len(s)] \in WhiteSpace THEN TrimEnd(SubSeq(s, 1, Len(s) - 1)) ELSE s

\* String.prototype.trim
Trim(s) == TrimEnd(TrimStart(s))

\* stripHtml: a JavaScript value in, a string (its characters) out
stripHtml(v) == IF v.t # "string" THEN <<>> ELSE Trim(StripTags(v.s))

-----------------------------------------------------------------------------
(* isValidEmail, src lines 29-31 *)

\* s is a non-empty run of characters other than white space and '@'
IsLocalRun(s) == s # <<>> /\ \A i \in 1..Len(s) : s[i] \notin (WhiteSpace \cup {"@"})

\* /^[^\s@]+@[^\s@]+\.[^\s@]+$/.test(email): the three runs exclude '@', so
\* the string holds exactly one '@'; the '.' is any '.' after it that
\* leaves a non-empty run on both sides
isValidEmail(s) ==
    \E i \in 1..Len(s) :
        /\ s[i] = "@"
        /\ IsLocalRun(SubSeq(s, 1, i - 1))
        /\ \E j \in (i + 1)..Len(s) :
              /\ s[j] = "."
              /\ IsLocalRun(SubSeq(s, i + 1, j - 1))
              /\ IsLocalRun(Tail1(s, j + 1))

-----------------------------------------------------------------------------
(* isValidUrl, src lines 33-36.  new URL(url) with no base is the WHATWG   *)
(* URL parser; it is modelled for the characters the model's inputs use:  *)
(* letters, digits, white space and : / ? # @ < > . - +                   *)

SchemeChars == Lower \cup Upper \cup Digit \cup {"+", "-", "."}

\* schemes whose URLs must have a host ("file" is left out: its host rules
\* differ and no input of the model uses it)
SPECIAL_SCHEMES ==
    { <<"h", "t", "t", "p">>, <<"h", "t", "t", "p", "s">>, <<"f", "t", "p">>,
      <<"w", "s">>, <<"w", "s", "s">> }

\* forbidden host code points, among the characters the model uses
ForbiddenHost == {" ", "#", "/", ":", "<", ">", "?", "@", "\\"}

ToLowerChar(c) ==
    IF c \in Upper
    THEN CHOOSE l \in Lower :
            \E k \in 1..26 :
               /\ <<"A","B","C","D","E","F","G","H","I","J","K","L","M","N","O","P","Q","R","S","T","U","V","W","X","Y","Z">>[k] = c
               /\ <<"a","b","c","d","e","f","g","h","i","j","k","l","m","n","o","p","q","r","s","t","u","v","w","x","y","z">>[k] = l
    ELSE c

ToLower(s) == [i \in 1..Len(s) |-> ToLowerChar(s[i])]

\* the parser first strips leading and trailing C0 controls and spaces,
\* then removes every tab and newline
RemoveTabNewline(s) == SelectSeq(s, LAMBDA c : c \notin {"\t", "\n", "\r"})

RECURSIVE SkipSlashes(_)
SkipSlashes(s) ==
    IF s # <<>> /\ Head(s) \in {"/", "\\"} THEN SkipSlashes(Tail(s)) ELSE s

\* index of the last '@' of s, 0 when there is none
RECURSIVE LastAt(_, _)
LastAt(s, i) == IF i = 0 THEN 0 ELSE IF s[i] = "@" THEN i ELSE LastAt(s, i - 1)

\* the authority of a URL: what precedes the first / \ ? #
Authority(s) ==
    LET e == IndexFrom(s, 1, {"/", "\\", "?", "#"})
    IN  IF e = 0 THEN s ELSE SubSeq(s, 1, e - 1)

\* host[:port], after the credentials (everything up to the last '@')
HostPort(auth) == Tail1(auth, LastAt(auth, Len(auth)) + 1)

HostOf(hp) ==
    LET c == IndexFrom(hp, 1, {":"})
    IN  IF c = 0 THEN hp ELSE SubSeq(hp, 1, c - 1)

PortOf(hp) ==
    LET c == IndexFrom(hp, 1, {":"})
    IN  IF c = 0 THEN <<>> ELSE Tail1(hp, c + 1)

HostOk(h) == \A i \in 1..Len(h) : h[i] \notin ForbiddenHost

PortOk(p) == \A i \in 1..Len(p) : p[i] \in Digit

\* whether new URL(s) returns (TRUE) or throws (FALSE)
UrlParses(s) ==
    LET u   == RemoveTabNewline(Trim(s))
        c   == IndexFrom(u, 1, {":"})
        sch == IF c = 0 THEN <<>> ELSE ToLower(SubSeq(u, 1, c - 1))
        rst == IF c = 0 THEN <<>> ELSE Tail1(u, c + 1)
        hasScheme ==
            /\ c >= 2
            /\ u[1] \in Lower \cup Upper
            /\ \A i \in 1..(c - 1) : u[i] \in SchemeChars
    IN  /\ hasScheme
        /\ IF sch \in SPECIAL_SCHEMES
           THEN LET hp == HostPort(Authority(SkipSlashes(rst)))
                IN  /\ HostOf(hp) # <<>>
                    /\ HostOk(HostOf(hp))
                    /\ PortOk(PortOf(hp))
           ELSE IF Len(rst) >= 2 /\ SubSeq(rst, 1, 2) = <<"/", "/">>
           THEN LET hp == HostPort(Authority(Tail1(rst, 3)))
                IN  /\ HostOk(HostOf(hp))
                    /\ PortOk(PortOf(hp))
           ELSE TRUE

\* String(v), for the values the model gives to new URL
ToStringJs(v) ==
    CASE v.t = "string"    -> v.s
      [] v.t = "number"    -> IF v.n = 0 THEN <<"0">> ELSE <<"5">>
      [] v.t = "undefined" -> <<"u", "n", "d", "e", "f", "i", "n", "e", "d">>
      [] v.t = "null"      -> <<"n", "u", "l", "l">>
      [] OTHER             -> <<>>

\* isValidUrl: a falsy value is valid; otherwise new URL(url) must not throw
isValidUrl(v) == IF ~Truthy(v) THEN TRUE ELSE UrlParses(ToStringJs(v))

-----------------------------------------------------------------------------
(* The CORS decision, src lines 39-41 *)

startsWith(s, prefix) ==
    Len(s) >= Len(prefix) /\ SubSeq(s, 1, Len(prefix)) = prefix

\* the production allow-list alone: a plausible slip (isLocal dropped)
IsAllowedNoLocal(origin) == origin \in ALLOWED_ORIGINS

\* const allowed = ALLOWED_ORIGINS.includes(origin) || isLocal
IsAllowedOrigin(origin) ==
    origin \in ALLOWED_ORIGINS \/ startsWith(origin, LOCAL_PREFIX)

-----------------------------------------------------------------------------
(* The request body and its fields *)

FieldNames ==
    {"type", "name", "email", "phone", "location", "company", "website",
     "portfolio_url", "linkedin_url", "bio", "referral_source",
     "primary_discipline", "disciplines", "years_experience", "vendor_type",
     "services_offered", "website_url"}

\* an object none of whose properties is set: every read gives undefined
NoFields == [k \in FieldNames |-> Undef]

\* req.body as the platform hands it over: form "undefined" (no body),
\* "text" (a string, which JSON.parse either parses to a value or rejects)
\* or "object" (already parsed).  A parsed value is of kind "object" (with
\* its fields), "scalar" (truthy and without properties, like 5) or "falsy"
\* (null, 0, false, '')
NoBody           == [form |-> "undefined", parses |-> FALSE, kind |-> "falsy",  fields |-> NoFields]
BadJsonBody      == [form |-> "text",      parses |-> FALSE, kind |-> "falsy",  fields |-> NoFields]
JsonNullBody     == [form |-> "text",      parses |-> TRUE,  kind |-> "falsy",  fields |-> NoFields]
JsonScalarBody   == [form |-> "text",      parses |-> TRUE,  kind |-> "scalar", fields |-> NoFields]
JsonTextBody(f)  == [form |-> "text",      parses |-> TRUE,  kind |-> "object", fields |-> f]
ObjectBody(f)    == [form |-> "object",    parses |-> TRUE,  kind |-> "object", fields |-> f]

-----------------------------------------------------------------------------
(* The response *)

EmptyBody        == [kind |-> "empty", ok |-> FALSE, error |-> "", details |-> <<>>]
OkBody           == [kind |-> "json",  ok |-> TRUE,  error |-> "", details |-> <<>>]
ErrorBody(msg)   == [kind |-> "json",  ok |-> FALSE, error |-> msg, details |-> <<>>]
ValidationBody(errs) ==
    [kind |-> "json", ok |-> FALSE, error |-> "Validation failed", details |-> errs]

NoHeaders == [acao |-> Undef, acam |-> "", acah |-> ""]

NoResponse == [sent |-> FALSE, status |-> 0, body |-> EmptyBody, headers |-> NoHeaders]

NoUpstream == [status |-> 0, text |-> ""]

\* const origin = req.headers.origin || '', src line 39
OriginOf(r) == IF Truthy(r.headers.origin) THEN r.headers.origin.s ELSE <<>>

\* the response headers set at src lines 42-46
CorsHeaders(r) ==
    [acao |-> IF IsAllowedOrigin(OriginOf(r)) THEN Str(OriginOf(r)) ELSE Undef,
     acam |-> "POST, OPTIONS",
     acah |-> "Content-Type"]

\* res.status(code).json(body) / res.status(code).end()
Respond(r, code, body) ==
    [sent |-> TRUE, status |-> code, body |-> body, headers |-> CorsHeaders(r)]

-----------------------------------------------------------------------------
(* Configuration and body parsing, src lines 51-60 *)

\* only the base URL is tested: a plausible slip
ConfigMissingUrlOnly(e) == ~Truthy(e.url)

\* !supabaseUrl || !supabaseKey
ConfigMissing(e) == ~Truthy(e.url) \/ ~Truthy(e.key)

\* a parse that fails gives no value instead of throwing: a plausible slip
ParseNeverThrows(b) == FALSE

\* JSON.parse throws on text that is no JSON; anything else is used as is
ParseThrows(b) == b.form = "text" /\ ~b.parses

\* !body
BodyMissing(b) == b.form = "undefined" \/ b.kind = "falsy"

-----------------------------------------------------------------------------
(* The honeypot, src lines 62-65 *)

\* the test made on the sanitized field: not what the code does
HoneypotSanitized(f) == stripHtml(f.website_url) # <<>>

\* if (body.website_url)
HoneypotFilled(f) == Truthy(f.website_url)

-----------------------------------------------------------------------------
(* Validation, src lines 67-97 *)

Cond(b, msg) == IF b THEN <<msg>> ELSE <<>>

\* validation that forgets the name rule: a plausible slip
ValidateNoName(f) ==
    LET type  == stripHtml(f.type)
        email == stripHtml(f.email)
        bio   == stripHtml(f.bio)
    IN  Cond(type \notin VALID_TYPES, "Invalid application type")
        \o Cond(email = <<>> \/ ~isValidEmail(email), "Valid email is required")
        \o Cond(bio = <<>> \/ Len(bio) < MinBioLength, "Bio must be at least 50 characters")
        \o Cond(type = <<"t", "a", "l", "e", "n", "t">> /\ stripHtml(f.primary_discipline) \notin TALENT_DISCIPLINES,
                "Primary discipline is required")
        \o Cond(type = <<"v", "e", "n", "d", "o", "r">> /\ stripHtml(f.vendor_type) \notin VENDOR_TYPES,
                "Vendor type is required")
        \o Cond(Truthy(f.website) /\ ~isValidUrl(f.website), "Invalid website URL")
        \o Cond(Truthy(f.portfolio_url) /\ ~isValidUrl(f.portfolio_url), "Invalid portfolio URL")
        \o Cond(Truthy(f.linkedin_url) /\ ~isValidUrl(f.linkedin_url), "Invalid LinkedIn URL")

\* the errors array when line 95 is reached
Validate(f) ==
    LET type  == stripHtml(f.type)
        name  == stripHtml(f.name)
        email == stripHtml(f.email)
        bio   == stripHtml(f.bio)
        discipline == stripHtml(f.primary_discipline)
        vendorType == stripHtml(f.vendor_type)
    IN  Cond(type \notin VALID_TYPES, "Invalid application type")
        \o Cond(name = <<>> \/ Len(name) < MinNameLength, "Name is required (min 2 characters)")
        \o Cond(email = <<>> \/ ~isValidEmail(email), "Valid email is required")
        \o Cond(bio = <<>> \/ Len(bio) < MinBioLength, "Bio must be at least 50 characters")
        \o Cond(type = <<"t", "a", "l", "e", "n", "t">> /\ (discipline = <<>> \/ discipline \notin TALENT_DISCIPLINES),
                "Primary discipline is required")
        \o Cond(type = <<"v", "e", "n", "d", "o", "r">> /\ (vendorType = <<>> \/ vendorType \notin VENDOR_TYPES),
                "Vendor type is required")
        \o Cond(Truthy(f.website) /\ ~isValidUrl(f.website), "Invalid website URL")
        \o Cond(Truthy(f.portfolio_url) /\ ~isValidUrl(f.portfolio_url), "Invalid portfolio URL")
        \o Cond(Truthy(f.linkedin_url) /\ ~isValidUrl(f.linkedin_url), "Invalid LinkedIn URL")

-----------------------------------------------------------------------------
(* The row, src lines 99-128 *)

\* the field kept as submitted: a plausible slip
RawOrNull(v) == IF Truthy(v) THEN v ELSE Null

\* stripHtml(x) || null
StripOrNull(v) == IF stripHtml(v) = <<>> THEN Null ELSE Str(stripHtml(v))

\* xs.map(stripHtml).filter(Boolean)
RECURSIVE StripAll(_)
StripAll(xs) ==
    IF xs = <<>> THEN <<>>
    ELSE (IF stripHtml(Head(xs)) = <<>> THEN <<>> ELSE <<Str(stripHtml(Head(xs)))>>)
         \o StripAll(Tail(xs))

\* Array.isArray(x) ? x.map(stripHtml).filter(Boolean) : null
StripArrayOrNull(v) == IF v.t = "array" THEN Arr(StripAll(v.a)) ELSE Null

DigitValue(c) == CHOOSE d \in 0..9 : <<"0", "1", "2", "3", "4", "5", "6", "7", "8", "9">>[d + 1] = c

RECURSIVE Decimal(_)
Decimal(s) ==
    IF s = <<>> THEN 0 ELSE 10 * Decimal(SubSeq(s, 1, Len(s) - 1)) + DigitValue(s[Len(s)])

\* Number(x) || null, for undefined, null, numbers and strings: NaN and 0
\* both give null
NumberOrNull(v) ==
    CASE v.t = "number" -> IF v.n = 0 THEN Null ELSE v
      [] v.t = "string" ->
            LET d == Trim(v.s)
            IN  IF d # <<>> /\ (\A i \in 1..Len(d) : d[i] \in Digit) /\ Decimal(d) # 0
                THEN Num(Decimal(d)) ELSE Null
      [] OTHER -> Null

\* the row object; a key the code does not set is undefined
ShapeRow(r, f) ==
    LET type == stripHtml(f.type)
    IN  [type            |-> Str(type),
         name            |-> Str(stripHtml(f.name)),
         email           |-> Str(stripHtml(f.email)),
         phone           |-> StripOrNull(f.phone),
         location        |-> StripOrNull(f.location),
         company         |-> StripOrNull(f.company),
         website         |-> StripOrNull(f.website),
         portfolio_url   |-> StripOrNull(f.portfolio_url),
         linkedin_url    |-> StripOrNull(f.linkedin_url),
         bio             |-> Str(stripHtml(f.bio)),
         referral_source |-> StripOrNull(f.referral_source),
         ip_address      |-> OrElse(OrElse(r.headers.xff, r.headers.xri), Null),
         user_agent      |-> OrElse(r.headers.ua, Null),
         primary_discipline |->
             IF type = <<"t", "a", "l", "e", "n", "t">> THEN Str(stripHtml(f.primary_discipline)) ELSE Undef,
         disciplines     |->
             IF type = <<"t", "a", "l", "e", "n", "t">> THEN StripArrayOrNull(f.disciplines) ELSE Undef,
         years_experience |->
             IF type = <<"t", "a", "l", "e", "n", "t">> THEN NumberOrNull(f.years_experience) ELSE Undef,
         vendor_type     |->
             IF type = <<"v", "e", "n", "d", "o", "r">> THEN Str(stripHtml(f.vendor_type)) ELSE Undef,
         services_offered |->
             IF type = <<"v", "e", "n", "d", "o", "r">> THEN StripArrayOrNull(f.services_offered) ELSE Undef]

NoRow == [k \in DOMAIN ShapeRow([headers |-> [xff |-> Undef, xri |-> Undef, ua |-> Undef]], NoFields) |-> Undef]

\* JSON.stringify(row): a key whose value is undefined is left out
JSONstringify(o) == [k \in {x \in DOMAIN o : o[x].t # "undefined"} |-> o[k]]

-----------------------------------------------------------------------------
(* handler, src lines 38-152: the part run before the first await *)

LogEntry(msg, status, text) == [msg |-> msg, status |-> status, text |-> text]

\* what the handler has done when it returns or reaches await fetch(...)
Outcome(p, rs, prs, errs, rw, fs, lg) ==
    [pc |-> p, res |-> rs, parsed |-> prs, errors |-> errs, row |-> rw,
     fetches |-> fs, log |-> lg]

Return(r, code, body, prs, errs) ==
    Outcome("done", Respond(r, code, body), prs, errs, NoRow, <<>>, <<>>)

\* catch (e), src lines 148-151
Caught(r, prs, rw, fs) ==
    Outcome("done", Respond(r, 500, ErrorBody("Internal server error")), prs, <<>>,
            rw, fs, <<LogEntry("Application handler error:", 0, "")>>)

\* src lines 39-139, in the order of the code: CORS headers (in Respond),
\* method, configuration, body, honeypot, validation, row, fetch
HandlerRun(e, r) ==
    LET f    == r.body.fields
        errs == Validate(f)
    IN  IF r.method = "OPTIONS" THEN
            Return(r, 200, EmptyBody, FALSE, <<>>)
        ELSE IF r.method # "POST" THEN
            Return(r, 405, ErrorBody("Method not allowed"), FALSE, <<>>)
        ELSE IF ConfigMissing(e) THEN
            Return(r, 500, ErrorBody("Server configuration error"), FALSE, <<>>)
        ELSE IF ParseThrows(r.body) THEN
            Caught(r, TRUE, NoRow, <<>>)
        ELSE IF BodyMissing(r.body) THEN
            Return(r, 400, ErrorBody("Missing request body"), TRUE, <<>>)
        ELSE IF HoneypotFilled(f) THEN
            Return(r, 200, OkBody, TRUE, <<>>)
        ELSE IF errs # <<>> THEN
            Return(r, 400, ValidationBody(errs), TRUE, errs)
        ELSE
            Outcome("awaitFetch", [NoResponse EXCEPT !.headers = CorsHeaders(r)],
                    TRUE, errs, ShapeRow(r, f), <<JSONstringify(ShapeRow(r, f))>>, <<>>)

-----------------------------------------------------------------------------
(* handler, src lines 130-151: the part run after each await *)

\* response.ok
ResponseOk(status) == status \in 200..299

\* the upstream text passed on to the caller: a plausible slip
SaveFailedLeaks(up) == ErrorBody(up.text)

\* { error: 'Failed to save application' }, src line 144
SaveFailed(up) == ErrorBody("Failed to save application")

-----------------------------------------------------------------------------
(* Inputs *)

EnvInputs ==
    { [url |-> u, key |-> k] :
        u \in {Undef, Str(<<"h", "t", "t", "p", "s", ":", "/", "/", "d", "b", ".", "e", "x", "a", "m", "p", "l", "e">>)},
        k \in {Undef, Str(<<>>), Str(<<"s", "e", "c", "r", "e", "t">>)} }

MethodInputs == {"OPTIONS", "POST", "GET"}

OriginInputs ==
    { Undef,
      Str(<<"h", "t", "t", "p", "s", ":", "/", "/", "t", "h", "i", "r", "t", "y", "3", "l", "a", "b", "s", ".", "c", "o", "m">>),
      Str(<<"h", "t", "t", "p", "s", ":", "/", "/", "w", "w", "w", ".", "t", "h", "i", "r", "t", "y", "3", "l", "a", "b", "s", ".", "c", "o", "m">>),
      Str(<<"h", "t", "t", "p", ":", "/", "/", "l", "o", "c", "a", "l", "h", "o", "s", "t">>),
      Str(<<"h", "t", "t", "p", ":", "/", "/", "l", "o", "c", "a", "l", "h", "o", "s", "t", ":", "3", "0", "0", "0">>),
      Str(<<"h", "t", "t", "p", ":", "/", "/", "l", "o", "c", "a", "l", "h", "o", "s", "t", ".", "e", "v", "i", "l", ".", "e", "x", "a", "m", "p", "l", "e">>),
      Str(<<"h", "t", "t", "p", ":", "/", "/", "l", "o", "c", "a", "l", "h", "o", "s">>),
      Str(<<"h", "t", "t", "p", "s", ":", "/", "/", "e", "v", "i", "l", ".", "e", "x", "a", "m", "p", "l", "e">>),
      Str(<<"h", "t", "t", "p", "s", ":", "/", "/", "t", "h", "i", "r", "t", "y", "3", "l", "a", "b", "s", ".", "c", "o", "m", ".", "e", "v", "i", "l", ".", "e", "x", "a", "m", "p", "l", "e">>) }

ForwardedForInputs == { Undef, Str(<<"1", "0", ".", "0", ".", "0", ".", "1">>), Str(<<"<", "i", "m", "g", ">">>) }
RealIpInputs       == { Undef, Str(<<"1", "0", ".", "0", ".", "0", ".", "2">>) }
UserAgentInputs    == { Undef, Str(<<"M", "o", "z", "i", "l", "l", "a">>), Str(<<"<", "s", "c", "r", "i", "p", "t", ">", "x", "<", "/", "s", "c", "r", "i", "p", "t", ">">>), Str(<<" ", "c", "u", "r", "l", " ">>) }

Headers(o, xff, xri, ua) == [origin |-> o, xff |-> xff, xri |-> xri, ua |-> ua]

PlainHeaders(o) == Headers(o, Str(<<"1", "0", ".", "0", ".", "0", ".", "1">>), Undef, Str(<<"M", "o", "z", "i", "l", "l", "a">>))

\* a bio of exactly n characters
Bio(n) == Rep("a", n)

TypeInputs  == { Undef, Str(<<"t", "a", "l", "e", "n", "t">>), Str(<<"v", "e", "n", "d", "o", "r">>), Str(<<"a", "d", "m", "i", "n">>), Str(<<" ", "<", "b", ">", "t", "a", "l", "e", "n", "t", "<", "/", "b", ">", " ">>) }
NameInputs  == { Undef, Str(<<"A">>), Str(<<"<", "b", ">", "J", "o", "<", "/", "b", ">">>), Str(<<" ", "J", " ">>) }
EmailInputs == { Undef, Str(<<"j", "o", "@", "x", ".", "c", "o">>), Str(<<"b", "a", "d", "-", "e", "m", "a", "i", "l">>), Str(<<"<", "i", ">", "j", "o", "@", "x", ".", "c", "o", "<", "/", "i", ">">>) }
BioInputs   ==
    { Undef, Str(Bio(MinBioLength)), Str(Bio(MinBioLength - 1)),
      Str(<<"<", "p", ">">> \o Bio(MinBioLength - 1) \o <<"<", "/", "p", ">">>) }

\* pairs <<primary_discipline, vendor_type>>
KindInputs ==
    { <<Undef, Undef>>,
      <<Str(<<"P", "h", "o", "t", "o", "g", "r", "a", "p", "h", "y">>), Undef>>,
      <<Undef, Str(<<"V", "e", "n", "u", "e">>)>>,
      <<Str(<<" ", "<", "b", ">", "O", "t", "h", "e", "r", "<", "/", "b", ">", " ">>), Str(<<"v", "e", "n", "u", "e">>)>>,
      <<Str(<<"J", "u", "g", "g", "l", "i", "n", "g">>), Str(<<"V", "e", "n", "u", "e">>)>>,
      <<Str(<<"P", "h", "o", "t", "o", "g", "r", "a", "p", "h", "y">>), Str(<<"<", "u", ">", "S", "t", "a", "f", "f", "i", "n", "g", "<", "/", "u", ">">>)>> }

UrlInputs ==
    { Undef, Str(<<>>), Str(<<" ">>), Num(5),
      Str(<<"h", "t", "t", "p", "s", ":", "/", "/", "x", ".", "c", "o">>),
      Str(<<"<", "b", ">", "h", "t", "t", "p", "s", ":", "/", "/", "x", ".", "c", "o", "<", "/", "b", ">">>),
      Str(<<"x", ".", "c", "o">>),
      Str(<<"h", "t", "t", "p", ":", "/", "/", "<", "@", "x", "/", ">">>) }

FewUrlInputs == { Undef, Str(<<"h", "t", "t", "p", "s", ":", "/", "/", "x", ".", "c", "o", "/", "<", "i", ">">>), Str(<<" ">>) }

HoneypotInputs ==
    { Undef, Str(<<>>), Str(<<" ">>), Str(<<"<", "b", ">", "<", "/", "b", ">">>), Str(<<"h", "t", "t", "p", ":", "/", "/", "s", "p", "a", "m", ".", "e", "x", "a", "m", "p", "l", "e">>), Num(5) }

TextInputs == { Undef, Str(<<"5", "5", "5">>), Str(<<" ", "<", "b", ">", "J", "o", "<", "/", "b", ">", " ", "<", "i", ">", "<", "/", "i", ">">>) }

ArrayInputs ==
    { Undef, Str(<<"S", "t", "y", "l", "i", "n", "g">>), Arr(<<>>),
      Arr(<<Str(<<" ", "<", "i", ">", "S", "t", "y", "l", "i", "n", "g", "<", "/", "i", ">", " ">>), Str(<<"<", "b", "r", ">">>), Num(5), Str(<<"O", "t", "h", "e", "r">>)>>) }

YearsInputs == { Undef, Num(0), Num(5), Str(<<" ", "1", "2", " ">>), Str(<<"x">>) }

ValidTalent ==
    [NoFields EXCEPT
        !.type = Str(<<"t", "a", "l", "e", "n", "t">>), !.name = Str(<<"J", "o">>), !.email = Str(<<"j", "o", "@", "x", ".", "c", "o">>),
        !.bio = Str(Bio(MinBioLength)), !.primary_discipline = Str(<<"P", "h", "o", "t", "o", "g", "r", "a", "p", "h", "y">>)]

ValidVendor ==
    [NoFields EXCEPT
        !.type = Str(<<"v", "e", "n", "d", "o", "r">>), !.name = Str(<<"J", "o">>), !.email = Str(<<"j", "o", "@", "x", ".", "c", "o">>),
        !.bio = Str(Bio(MinBioLength)), !.vendor_type = Str(<<"V", "e", "n", "u", "e">>)]

\* the spec's scenario 2
Scenario2 ==
    [NoFields EXCEPT
        !.type = Str(<<"v", "e", "n", "d", "o", "r">>), !.name = Str(<<"A">>), !.email = Str(<<"b", "a", "d", "-", "e", "m", "a", "i", "l">>),
        !.bio = Str(<<"s", "h", "o", "r", "t">>)]

\* the required fields, in every combination
CoreFields ==
    { [NoFields EXCEPT
         !.type = t, !.name = n, !.email = e, !.bio = b,
         !.primary_discipline = k[1], !.vendor_type = k[2]] :
        t \in TypeInputs, n \in NameInputs, e \in EmailInputs, b \in BioInputs,
        k \in KindInputs }

\* the URL fields and the honeypot, on a valid and on an invalid submission
UrlFields ==
    { [base EXCEPT
         !.website = w, !.portfolio_url = p, !.linkedin_url = l, !.website_url = h] :
        base \in {ValidTalent, Scenario2}, w \in UrlInputs, p \in FewUrlInputs,
        l \in FewUrlInputs, h \in HoneypotInputs }

\* the optional fields, on valid submissions
OptionalFields ==
    { [base EXCEPT
         !.phone = x, !.location = x, !.company = x, !.referral_source = x,
         !.disciplines = d, !.services_offered = s, !.years_experience = y] :
        base \in {ValidTalent, ValidVendor}, x \in TextInputs, d \in ArrayInputs,
        s \in ArrayInputs, y \in YearsInputs }

FewBodies ==
    { NoBody, BadJsonBody, JsonNullBody, JsonScalarBody,
      ObjectBody(ValidTalent), JsonTextBody(ValidVendor), ObjectBody(Scenario2),
      ObjectBody([Scenario2 EXCEPT !.website_url = Str(<<"h", "t", "t", "p", ":", "/", "/", "s", "p", "a", "m", ".", "e", "x", "a", "m", "p", "l", "e">>)]),
      ObjectBody([ValidTalent EXCEPT !.website = Str(<<" ">>)]) }

Requests ==
    { [method |-> m, headers |-> PlainHeaders(o), body |-> b] :
        m \in MethodInputs, o \in OriginInputs, b \in FewBodies }
    \cup
    { [method |-> "POST", headers |-> Headers(o, xff, xri, ua), body |-> ObjectBody(f)] :
        o \in {Str(<<"h", "t", "t", "p", "s", ":", "/", "/", "t", "h", "i", "r", "t", "y", "3", "l", "a", "b", "s", ".", "c", "o", "m">>), Str(<<"h", "t", "t", "p", "s", ":", "/", "/", "e", "v", "i", "l", ".", "e", "x", "a", "m", "p", "l", "e">>)},
        xff \in ForwardedForInputs, xri \in RealIpInputs, ua \in UserAgentInputs,
        f \in {ValidTalent, ValidVendor} }
    \cup
    { [method |-> "POST", headers |-> PlainHeaders(Str(<<"h", "t", "t", "p", "s", ":", "/", "/", "t", "h", "i", "r", "t", "y", "3", "l", "a", "b", "s", ".", "c", "o", "m">>)),
       body |-> ObjectBody(f)] :
        f \in CoreFields \cup UrlFields \cup OptionalFields }

NoRequest == [method |-> "", headers |-> Headers(Undef, Undef, Undef, Undef), body |-> NoBody]

UpstreamStatuses == {201, 204, 400, 409, 500}
UpstreamTexts    == {"", "duplicate key value violates unique constraint"}

-----------------------------------------------------------------------------
(* The handler as a state machine.  The module keeps no state between two *)
(* invocations (src lines 5-22 are constants), so a behaviour is one       *)
(* invocation of handler(req, res) in a process with configuration env.   *)

SanIdle ==
    /\ sanPc = "off"
    /\ sanIn = Undef
    /\ sanOut = <<>>
    /\ sanTwice = <<>>

Init ==
    /\ env \in EnvInputs
    /\ pc = "idle"
    /\ req = NoRequest
    /\ res = NoResponse
    /\ parsed = FALSE
    /\ errors = <<>>
    /\ row = NoRow
    /\ fetches = <<>>
    /\ upstream = NoUpstream
    /\ log = <<>>
    /\ SanIdle

\* handler(req, res) up to its first return or to await fetch(...)
Handler(r) ==
    /\ pc = "idle"
    /\ LET o == HandlerRun(env, r)
       IN  /\ req' = r
           /\ pc' = o.pc
           /\ res' = o.res
           /\ parsed' = o.parsed
           /\ errors' = o.errors
           /\ row' = o.row
           /\ fetches' = o.fetches
           /\ log' = o.log
    /\ UNCHANGED <<env, upstream>>
    /\ UNCHANGED sanVars

\* fetch resolves with a response of this status, src lines 130-147
FetchResolves(status) ==
    /\ pc = "awaitFetch"
    /\ upstream' = [upstream EXCEPT !.status = status]
    /\ IF ResponseOk(status)
       THEN /\ res' = Respond(req, 200, OkBody)
            /\ pc' = "done"
       ELSE /\ res' = res
            /\ pc' = "awaitText"
    /\ UNCHANGED <<env, req, parsed, errors, row, fetches, log>>
    /\ UNCHANGED sanVars

\* fetch rejects (no connection): caught at src lines 148-151
FetchRejects ==
    /\ pc = "awaitFetch"
    /\ res' = Respond(req, 500, ErrorBody("Internal server error"))
    /\ log' = <<LogEntry("Application handler error:", 0, "")>>
    /\ pc' = "done"
    /\ UNCHANGED <<env, req, parsed, errors, row, fetches, upstream>>
    /\ UNCHANGED sanVars

\* response.text() resolves, src lines 142-144
TextResolves(text) ==
    /\ pc = "awaitText"
    /\ upstream' = [upstream EXCEPT !.text = text]
    /\ log' = <<LogEntry("Supabase insert error:", upstream.status, text)>>
    /\ res' = Respond(req, 500, SaveFailed(upstream'))
    /\ pc' = "done"
    /\ UNCHANGED <<env, req, parsed, errors, row, fetches>>
    /\ UNCHANGED sanVars

\* response.text() rejects (the connection drops while the body is read):
\* caught at src lines 148-151
TextRejects ==
    /\ pc = "awaitText"
    /\ res' = Respond(req, 500, ErrorBody("Internal server error"))
    /\ log' = <<LogEntry("Application handler error:", 0, "")>>
    /\ pc' = "done"
    /\ UNCHANGED <<env, req, parsed, errors, row, fetches, upstream>>
    /\ UNCHANGED sanVars

Next ==
    \/ \E r \in Requests : Handler(r)
    \/ \E status \in UpstreamStatuses : FetchResolves(status)
    \/ FetchRejects
    \/ \E text \in UpstreamTexts : TextResolves(text)
    \/ TextRejects

Spec == Init /\ [][Next]_vars

-----------------------------------------------------------------------------
(* The sanitizer on its own: stripHtml applied to a value, then to its own *)
(* output                                                                  *)

SanAlphabet == {"<", ">", " ", "a"}

SanStrings == UNION { [1..k -> SanAlphabet] : k \in 0..MaxLen }

SanInputs == { Str(s) : s \in SanStrings } \cup { Undef, Null, Num(5), Arr(<<>>) }

SanInit ==
    /\ env = [url |-> Undef, key |-> Undef]
    /\ pc = "off"
    /\ req = NoRequest
    /\ res = NoResponse
    /\ parsed = FALSE
    /\ errors = <<>>
    /\ row = NoRow
    /\ fetches = <<>>
    /\ upstream = NoUpstream
    /\ log = <<>>
    /\ sanPc = "in"
    /\ sanIn \in SanInputs
    /\ sanOut = <<>>
    /\ sanTwice = <<>>

SanApply ==
    /\ sanPc = "in"
    /\ sanOut' = stripHtml(sanIn)
    /\ sanPc' = "once"
    /\ UNCHANGED <<sanIn, sanTwice>>
    /\ UNCHANGED handlerVars

SanReapply ==
    /\ sanPc = "once"
    /\ sanTwice' = stripHtml(Str(sanOut))
    /\ sanPc' = "twice"
    /\ UNCHANGED <<sanIn, sanOut>>
    /\ UNCHANGED handlerVars

SanNext == SanApply \/ SanReapply

SanSpec == SanInit /\ [][SanNext]_vars

-----------------------------------------------------------------------------
(* Vocabulary of the properties, stated without the operators above *)

Fields == req.body.fields

\* both configuration values are present
ConfigPresent == Truthy(env.url) /\ Truthy(env.key)

\* the body, once read, is a value that is not falsy
BodyPresent ==
    req.body.form # "undefined" /\ req.body.parses /\ req.body.kind # "falsy"

\* s holds a substring matching <...>: a '<' with a '>' somewhere after it
HasTag(s) == \E i \in 1..Len(s) : \E j \in (i + 1)..Len(s) : s[i] = "<" /\ s[j] = ">"

\* s neither starts nor ends with white space
IsTrimmed(s) == s = <<>> \/ (s[1] \notin WhiteSpace /\ s[Len(s)] \notin WhiteSpace)

IsClean(s) == ~HasTag(s) /\ IsTrimmed(s)

\* a JavaScript value is clean when it is no string, or a clean one, or an
\* array of clean values
ValueClean(v) ==
    /\ v.t = "string" => IsClean(v.s)
    /\ v.t = "array"  => \A i \in 1..Len(v.a) : v.a[i].t = "string" => IsClean(v.a[i].s)

\* the local@domain.tld shape: no white space, exactly one '@', which is not
\* first, and after it a '.' that is neither next to the '@' nor last
EmailShape(s) ==
    /\ \A i \in 1..Len(s) : s[i] \notin WhiteSpace
    /\ Cardinality({i \in 1..Len(s) : s[i] = "@"}) = 1
    /\ \E i \in 2..Len(s) :
          /\ s[i] = "@"
          /\ \E j \in (i + 2)..(Len(s) - 1) : s[j] = "."

Reports(msg) == \E i \in 1..Len(errors) : errors[i] = msg

\* the caller got HTTP 200 {ok: true}
AnsweredOk == res.sent /\ res.status = 200 /\ res.body = OkBody

AnsweredError(code, msg) ==
    res.sent /\ res.status = code /\ res.body = ErrorBody(msg)

\* the rules of the validator on the sanitized input, in their fixed order,
\* each with its message
SanitizedUrlBad(v) == stripHtml(v) # <<>> /\ ~UrlParses(stripHtml(v))

RuleViolations(f) ==
    Cond(stripHtml(f.type) \notin VALID_TYPES, "Invalid application type")
    \o Cond(Len(stripHtml(f.name)) < 2, "Name is required (min 2 characters)")
    \o Cond(~EmailShape(stripHtml(f.email)), "Valid email is required")
    \o Cond(Len(stripHtml(f.bio)) < 50, "Bio must be at least 50 characters")
    \o Cond(stripHtml(f.type) = <<"t", "a", "l", "e", "n", "t">>
            /\ stripHtml(f.primary_discipline) \notin TALENT_DISCIPLINES,
            "Primary discipline is required")
    \o Cond(stripHtml(f.type) = <<"v", "e", "n", "d", "o", "r">>
            /\ stripHtml(f.vendor_type) \notin VENDOR_TYPES,
            "Vendor type is required")
    \o Cond(SanitizedUrlBad(f.website), "Invalid website URL")
    \o Cond(SanitizedUrlBad(f.portfolio_url), "Invalid portfolio URL")
    \o Cond(SanitizedUrlBad(f.linkedin_url), "Invalid LinkedIn URL")

-----------------------------------------------------------------------------
(* C1 *)

\* C1, as stated: every request whose body carries a non-empty website_url
\* is answered 200 {ok: true}, with no validation error and no write.
C1_HoneypotAnyRequest ==
    (pc # "idle" /\ Truthy(Fields.website_url)) =>
        /\ AnsweredOk
        /\ errors = <<>>
        /\ fetches = <<>>

\* C1, amended: every POST served with the configuration present whose body
\* carries a non-empty (truthy) website_url is answered 200 {ok: true}
\* whatever its other fields, with no validation error and no write.
C1_Honeypot ==
    (pc # "idle" /\ req.method = "POST" /\ ConfigPresent /\ Truthy(Fields.website_url)) =>
        /\ pc = "done"
        /\ AnsweredOk
        /\ errors = <<>>
        /\ fetches = <<>>

\* a honeypot submission whose other fields are invalid, answered 200
C1_Witness ==
    /\ pc = "done"
    /\ req.method = "POST"
    /\ ConfigPresent
    /\ Fields.website_url = Str(<<" ">>)
    /\ stripHtml(Fields.type) \notin VALID_TYPES \/ ~EmailShape(stripHtml(Fields.email))
    /\ AnsweredOk

-----------------------------------------------------------------------------
(* C2 *)

\* C2: for a POST that reaches validation (configuration present, body
\* present, honeypot empty), when a rule is violated the answer is 400
\* "Validation failed" whose details are the messages of exactly the
\* violated rules, in the fixed rule order.
C2_AllViolationsReported ==
    (/\ pc # "idle"
     /\ req.method = "POST"
     /\ ConfigPresent
     /\ BodyPresent
     /\ ~Truthy(Fields.website_url)
     /\ RuleViolations(Fields) # <<>>) =>
        /\ res.sent
        /\ res.status = 400
        /\ res.body = ValidationBody(RuleViolations(Fields))

-----------------------------------------------------------------------------
(* C3 *)

RecordValid(b) ==
    /\ b.type.t = "string" /\ b.type.s \in {<<"t", "a", "l", "e", "n", "t">>, <<"v", "e", "n", "d", "o", "r">>}
    /\ b.name.t = "string" /\ Len(b.name.s) >= 2
    /\ b.email.t = "string" /\ EmailShape(b.email.s)
    /\ b.bio.t = "string" /\ Len(b.bio.s) >= 50
    /\ b.type.s = <<"t", "a", "l", "e", "n", "t">> =>
          /\ "primary_discipline" \in DOMAIN b
          /\ b["primary_discipline"].s \in TALENT_DISCIPLINES
    /\ b.type.s = <<"v", "e", "n", "d", "o", "r">> =>
          /\ "vendor_type" \in DOMAIN b
          /\ b["vendor_type"].s \in VENDOR_TYPES

\* C3: every record forwarded to the persistence API has a type of talent or
\* vendor, a name of at least 2 characters, an e-mail of the local@domain.tld
\* shape, a bio of at least 50 characters and a discipline (talent) or vendor
\* type (vendor) of the enumerated set; no write is issued for a request that
\* violates one of these rules.
C3_ForwardedRecordValid ==
    /\ \A i \in 1..Len(fetches) : RecordValid(fetches[i])
    /\ fetches # <<>> =>
          /\ stripHtml(Fields.type) \in {<<"t", "a", "l", "e", "n", "t">>, <<"v", "e", "n", "d", "o", "r">>}
          /\ Len(stripHtml(Fields.name)) >= 2
          /\ EmailShape(stripHtml(Fields.email))
          /\ Len(stripHtml(Fields.bio)) >= 50

\* a submission whose fields are valid only once sanitized has been forwarded
C3_Witness ==
    /\ Len(fetches) = 1
    /\ Fields.type = Str(<<" ", "<", "b", ">", "t", "a", "l", "e", "n", "t", "<", "/", "b", ">", " ">>)
    /\ Fields.name = Str(<<"<", "b", ">", "J", "o", "<", "/", "b", ">">>)
    /\ fetches[1].name = Str(<<"J", "o">>)
    /\ fetches[1].type = Str(<<"t", "a", "l", "e", "n", "t">>)

-----------------------------------------------------------------------------
(* C4 *)

MetadataKeys == {"ip_address", "user_agent"}

\* C4, as stated: every string field of a forwarded record, ip_address and
\* user_agent included, holds no <...> and no leading or trailing white space.
C4_AllFieldsClean ==
    \A i \in 1..Len(fetches) :
        \A k \in DOMAIN fetches[i] : ValueClean(fetches[i][k])

\* C4, amended: every string field of a forwarded record that comes from the
\* request body (all but ip_address and user_agent, which are copied from the
\* request headers as they are) holds no <...> and no leading or trailing
\* white space.
C4_BodyFieldsClean ==
    \A i \in 1..Len(fetches) :
        \A k \in (DOMAIN fetches[i]) \ MetadataKeys : ValueClean(fetches[i][k])

\* a record forwarded from a submission with markup in an optional field and
\* in an array field
C4_Witness ==
    /\ Len(fetches) = 1
    /\ Fields.phone = Str(<<" ", "<", "b", ">", "J", "o", "<", "/", "b", ">", " ", "<", "i", ">", "<", "/", "i", ">">>)
    /\ fetches[1].phone = Str(<<"J", "o">>)
    /\ Fields.disciplines.t = "array"
    /\ Len(Fields.disciplines.a) = 4
    /\ fetches[1].disciplines = Arr(<<Str(<<"S", "t", "y", "l", "i", "n", "g">>), Str(<<"O", "t", "h", "e", "r">>)>>)

-----------------------------------------------------------------------------
(* C5 *)

\* C5, as stated: with the base URL or the credential missing, every request
\* is answered 500 before the body is parsed, and nothing is written.
C5_MissingConfigAlways500 ==
    (pc # "idle" /\ ~ConfigPresent) =>
        /\ res.sent
        /\ res.status = 500
        /\ ~parsed
        /\ fetches = <<>>

\* C5, amended: with the base URL or the credential missing, every POST is
\* answered 500 before the body is parsed; an OPTIONS request is still
\* answered 200 and any other method 405; nothing is parsed or written.
C5_MissingConfig ==
    (pc # "idle" /\ ~ConfigPresent) =>
        /\ pc = "done"
        /\ ~parsed
        /\ fetches = <<>>
        /\ req.method = "POST" => AnsweredError(500, "Server configuration error")
        /\ req.method = "OPTIONS" => res.sent /\ res.status = 200 /\ res.body = EmptyBody
        /\ req.method \notin {"POST", "OPTIONS"} => AnsweredError(405, "Method not allowed")

\* a valid POST turned away because only the credential is missing
C5_Witness ==
    /\ pc = "done"
    /\ req.method = "POST"
    /\ Truthy(env.url) /\ ~Truthy(env.key)
    /\ req.body = ObjectBody(ValidTalent)
    /\ res.status = 500

-----------------------------------------------------------------------------
(* C6 *)

\* C6, as stated: a POST (configuration present) whose body is missing or is
\* no JSON is answered 400 "Missing request body", and nothing is written.
C6_MissingOrUnparseable400 ==
    (pc # "idle" /\ req.method = "POST" /\ ConfigPresent /\ ~BodyPresent) =>
        /\ AnsweredError(400, "Missing request body")
        /\ fetches = <<>>

\* C6, amended: a POST (configuration present) whose body is missing, or is
\* JSON text of a falsy value, is answered 400 "Missing request body"; one
\* whose body is text that is no JSON is answered 500 "Internal server error";
\* nothing is written in either case.
C6_MissingBody ==
    (pc # "idle" /\ req.method = "POST" /\ ConfigPresent /\ ~BodyPresent) =>
        /\ fetches = <<>>
        /\ IF req.body.form = "text" /\ ~req.body.parses
           THEN AnsweredError(500, "Internal server error")
           ELSE AnsweredError(400, "Missing request body")

\* a POST with text that is no JSON has been answered
C6_Witness ==
    /\ pc = "done"
    /\ req.method = "POST"
    /\ ConfigPresent
    /\ req.body = BadJsonBody
    /\ res.status = 500

-----------------------------------------------------------------------------
(* C7 *)

UpstreamOk == upstream.status \in 200..299

\* the response bodies the handler sends after the write, none of which
\* holds anything of the upstream response
OpaqueBodies ==
    { OkBody, ErrorBody("Failed to save application"), ErrorBody("Internal server error") }

\* C7, as stated: a request that passes validation issues exactly one POST,
\* never retried; it is answered only once the call's outcome is known, 200
\* {ok: true} on an upstream success and 500 "Failed to save application" on
\* any other upstream status, with nothing of the upstream response in it.
C7_SaveOutcomeAnyStatus ==
    (pc # "idle" /\ fetches # <<>>) =>
        /\ Len(fetches) = 1
        /\ pc \in {"awaitFetch", "awaitText"} => ~res.sent
        /\ res.sent => res.body \in OpaqueBodies
        /\ (pc = "done" /\ upstream.status # 0 /\ UpstreamOk) => AnsweredOk
        /\ (pc = "done" /\ upstream.status # 0 /\ ~UpstreamOk) =>
              AnsweredError(500, "Failed to save application")

\* C7, amended: as stated, except that on a non-success upstream status the
\* answer is 500 "Failed to save application" when the upstream body could be
\* read, and 500 "Internal server error" when reading it failed; a call that
\* fails without a status is answered 500 "Internal server error" too.
C7_SaveOutcome ==
    (pc # "idle" /\ fetches # <<>>) =>
        /\ Len(fetches) = 1
        /\ pc \in {"awaitFetch", "awaitText"} => ~res.sent
        /\ res.sent => res.body \in OpaqueBodies
        /\ (pc = "done" /\ upstream.status # 0 /\ UpstreamOk) => AnsweredOk
        /\ (pc = "done" /\ upstream.status # 0 /\ ~UpstreamOk) =>
              IF log = <<LogEntry("Supabase insert error:", upstream.status, upstream.text)>>
              THEN AnsweredError(500, "Failed to save application")
              ELSE AnsweredError(500, "Internal server error")
        /\ (pc = "done" /\ upstream.status = 0) =>
              AnsweredError(500, "Internal server error")

\* the write was refused upstream with a body, and the caller has been answered
C7_Witness ==
    /\ pc = "done"
    /\ Len(fetches) = 1
    /\ upstream.status = 409
    /\ upstream.text # ""
    /\ AnsweredError(500, "Failed to save application")

-----------------------------------------------------------------------------
(* C8 *)

\* the request, had it come from an origin of the allow-list
FromAllowedOrigin == [req EXCEPT !.headers.origin = Str(<<"h", "t", "t", "p", "s", ":", "/", "/", "t", "h", "i", "r", "t", "y", "3", "l", "a", "b", "s", ".", "c", "o", "m">>)]

OriginApproved(o) ==
    \/ o = <<"h", "t", "t", "p", "s", ":", "/", "/", "t", "h", "i", "r", "t", "y", "3", "l", "a", "b", "s", ".", "c", "o", "m">>
    \/ o = <<"h", "t", "t", "p", "s", ":", "/", "/", "w", "w", "w", ".", "t", "h", "i", "r", "t", "y", "3", "l", "a", "b", "s", ".", "c", "o", "m">>
    \/ (Len(o) >= 16 /\ SubSeq(o, 1, 16) = <<"h", "t", "t", "p", ":", "/", "/", "l", "o", "c", "a", "l", "h", "o", "s", "t">>)

\* C8: whatever the method, the allow-origin header is set if and only if the
\* Origin is an entry of the allow-list or begins with http://localhost, and
\* then it is the Origin itself; the origin changes nothing else: status,
\* body, validation errors and write are those of the same request from an
\* allowed origin.
C8_Cors ==
    pc # "idle" =>
        /\ res.headers.acao =
              IF req.headers.origin.t = "string" /\ OriginApproved(req.headers.origin.s)
              THEN req.headers.origin
              ELSE Undef
        /\ LET o == HandlerRun(env, FromAllowedOrigin)
           IN  /\ errors = o.errors
               /\ parsed = o.parsed
               /\ Len(fetches) = Len(o.fetches)
               /\ (pc = "done") = (o.pc = "done") \/ upstream.status # 0 \/ log # <<>>
               /\ o.pc = "done" =>
                     /\ res.status = o.res.status
                     /\ res.body = o.res.body

\* a valid POST from a disallowed origin has been processed and saved, and
\* its response has no allow-origin header
C8_Witness ==
    /\ pc = "done"
    /\ req.method = "POST"
    /\ req.headers.origin = Str(<<"h", "t", "t", "p", "s", ":", "/", "/", "e", "v", "i", "l", ".", "e", "x", "a", "m", "p", "l", "e">>)
    /\ res.headers.acao = Undef
    /\ Len(fetches) = 1
    /\ AnsweredOk

-----------------------------------------------------------------------------
(* C9 *)

\* C9: the honeypot test and the well-formedness check of website,
\* portfolio_url and linkedin_url are made on the sanitized value of the
\* field: a POST whose body is read is taken for a bot exactly when its
\* sanitized website_url is not empty, and otherwise a URL message is
\* reported exactly when the sanitized URL field is not empty and is no
\* well-formed absolute URL.
C9_DecisionsOnSanitized ==
    (pc # "idle" /\ req.method = "POST" /\ ConfigPresent /\ BodyPresent) =>
        IF stripHtml(Fields.website_url) # <<>>
        THEN AnsweredOk /\ errors = <<>> /\ fetches = <<>>
        ELSE /\ Reports("Invalid website URL") <=> SanitizedUrlBad(Fields.website)
             /\ Reports("Invalid portfolio URL") <=> SanitizedUrlBad(Fields.portfolio_url)
             /\ Reports("Invalid LinkedIn URL") <=> SanitizedUrlBad(Fields.linkedin_url)

-----------------------------------------------------------------------------
(* C10 *)

\* C10: the output of stripHtml holds no substring matching <...> and no
\* leading or trailing white space, and stripHtml applied to its own output
\* returns it unchanged.
C10_SanitizerClean ==
    /\ sanPc \in {"once", "twice"} => ~HasTag(sanOut) /\ IsTrimmed(sanOut)
    /\ sanPc = "twice" => sanTwice = sanOut

\* the nested input <<a>> has been sanitized twice; what is left of it is '>'
C10_Witness ==
    /\ sanPc = "twice"
    /\ sanIn = Str(<<"<", "<", "a", ">", ">">>)
    /\ sanOut = <<">">>

=============================================================================
